---- MODULE Spec2Model ----
(***************************************************************************)
(* Chaikin Oscillator (src/indicators/chaikin_oscillator.rs).              *)
(*                                                                         *)
(* The configuration ChaikinOscillator {ma1, ma2, window}, its operations  *)
(* validate / init / set / size, and the running instance                  *)
(* ChaikinOscillatorInstance {cfg, adi, ma1, ma2, cross_over} with its     *)
(* operation next.  The collaborators (MA, ADI, Cross, the OHLCV candle,   *)
(* the descriptor parser) live outside the file; they are modelled from    *)
(* the interface contracts the specification gives for them.               *)
(*                                                                         *)
(* ValueType (f64) is modelled by exact rationals <<n, d>>, d > 0, in      *)
(* lowest terms.                                                           *)
(***************************************************************************)
EXTENDS Integers, Sequences, FiniteSets, TLC

VARIABLES cfg, inst, res, outs

vars == <<cfg, inst, res, outs>>

----------------------------------------------------------------------------
(* Bounds of the model *)

\* periods 0..MaxPeriod are enumerated for both descriptors
MaxPeriod == 3
\* number of next() calls made on one instance
MaxTicks == 3
\* largest candle volume
MaxVolume == 3
\* number of next() calls made on one instance while the caller keeps
\* changing its configuration
MaxLiveTicks == 2

----------------------------------------------------------------------------
(* ValueType: exact rational arithmetic *)

Abs(x) == IF x < 0 THEN -x ELSE x

RECURSIVE Gcd(_, _)
Gcd(a, b) == IF b = 0 THEN a ELSE Gcd(b, a % b)

Rat(n, d) ==
    LET g == Gcd(Abs(n), Abs(d))
        s == IF d < 0 THEN -1 ELSE 1
    IN  <<(s * n) \div g, (s * d) \div g>>

Zero == <<0, 1>>
One == <<1, 1>>
FromInt(i) == <<i, 1>>

RAdd(x, y) == Rat(x[1] * y[2] + y[1] * x[2], x[2] * y[2])
RSub(x, y) == Rat(x[1] * y[2] - y[1] * x[2], x[2] * y[2])
RMul(x, y) == Rat(x[1] * y[1], x[2] * y[2])
RDivInt(x, k) == Rat(x[1], x[2] * k)
RLt(x, y) == x[1] * y[2] < y[1] * x[2]
RLe(x, y) == x[1] * y[2] <= y[1] * x[2]
RGt(x, y) == RLt(y, x)
RGe(x, y) == RLe(y, x)
RNeg(x) == <<-x[1], x[2]>>

----------------------------------------------------------------------------
(* PeriodType and the OHLCV candle *)

PeriodTypeMAX == 255

Candle(h, l, c, v) == [high |-> h, low |-> l, close |-> c, volume |-> v]

\* rising, falling and flat bars of small and large volume
Candles ==
    { Candle(2, 0, 2, 1), Candle(2, 0, 0, 1), Candle(1, 1, 1, 1),
      Candle(2, 0, 2, MaxVolume), Candle(2, 0, 0, MaxVolume) }

\* close location value: ((close - low) - (high - close)) / (high - low)
clv(candle) ==
    IF candle.high = candle.low
    THEN Zero
    ELSE Rat((candle.close - candle.low) - (candle.high - candle.close),
             candle.high - candle.low)

clvv(candle) == RMul(clv(candle), FromInt(candle.volume))

----------------------------------------------------------------------------
(* MA: the smoothing descriptor and its running filter *)

Families == {"EMA", "SMA"}

MA(f, p) == [family |-> f, period |-> p]

ma_period(m) == m.period

\* same smoothing family, whatever the periods
is_similar_to(a, b) == a.family = b.family

Ok(v) == [err |-> "", v |-> <<v>>]
Err(e) == [err |-> e, v |-> <<>>]
IsOk(r) == r.err = ""
Unwrap(r) == r.v[1]

Repeat(x, n) == [i \in 1..n |-> x]

\* a filter that has already observed `seed` for its whole period
MA_init(m, seed) ==
    IF m.period = 0 \/ m.period = PeriodTypeMAX
    THEN Err("WrongMethodParameters")
    ELSE Ok([family |-> m.family, period |-> m.period, value |-> seed,
             window |-> IF m.family = "SMA" THEN Repeat(seed, m.period) ELSE <<>>])

\* EMA: value += 2/(period+1) * (x - value)
\* SMA: value += (x - oldest) / period over a sliding window
MA_next(f, x) ==
    IF f.family = "EMA"
    THEN [f EXCEPT !.value =
              RAdd(f.value, RMul(Rat(2, f.period + 1), RSub(x, f.value)))]
    ELSE [f EXCEPT !.value =
              RAdd(f.value, RDivInt(RSub(x, Head(f.window)), f.period)),
                   !.window = Append(Tail(f.window), x)]

----------------------------------------------------------------------------
(* ADI: the accumulation/distribution accumulator *)

\* the largest window the accumulator can hold
AdiMaxWindow == PeriodTypeMAX - 1

ADI_new(window, candle) ==
    IF window > AdiMaxWindow
    THEN Err("WrongMethodParameters")
    ELSE IF window = 0
    THEN Ok([cmf_sum |-> clvv(candle), window |-> <<>>])
    ELSE Ok([cmf_sum |-> RMul(clvv(candle), FromInt(window)),
             window |-> Repeat(clvv(candle), window)])

\* the current value, the accumulator is left as it is
ADI_peek(adi) == adi.cmf_sum

\* the accumulator after the candle; its value is ADI_peek of the result
ADI_next(adi, candle) ==
    IF adi.window = <<>>
    THEN [adi EXCEPT !.cmf_sum = RAdd(adi.cmf_sum, clvv(candle))]
    ELSE [cmf_sum |-> RSub(RAdd(adi.cmf_sum, clvv(candle)), Head(adi.window)),
          window |-> Append(Tail(adi.window), clvv(candle))]

----------------------------------------------------------------------------
(* Cross: the crossover detector *)

Sign(x) == IF x[1] > 0 THEN 1 ELSE IF x[1] < 0 THEN -1 ELSE 0

\* neutral: no side seen yet
Cross_default == [last |-> 0]

\* +1 when a moves from <= b to > b, -1 when it moves from >= b to < b
Cross_next(cross, a, b) ==
    LET d == Sign(RSub(a, b))
        up == IF cross.last <= 0 /\ d > 0 THEN 1 ELSE 0
        down == IF cross.last >= 0 /\ d < 0 THEN 1 ELSE 0
    IN  [cross |-> [last |-> d], signal |-> up - down]

----------------------------------------------------------------------------
(* Parsing a smoothing descriptor from text: FAMILY(period) *)

\* text is a sequence of characters
Digits == {"0", "1", "2", "3", "4", "5", "6", "7", "8", "9"}

DigitVal(ch) ==
    CASE ch = "0" -> 0 [] ch = "1" -> 1 [] ch = "2" -> 2 [] ch = "3" -> 3
      [] ch = "4" -> 4 [] ch = "5" -> 5 [] ch = "6" -> 6 [] ch = "7" -> 7
      [] ch = "8" -> 8 [] ch = "9" -> 9

RECURSIVE Number(_)
Number(ds) ==
    IF ds = <<>> THEN 0
    ELSE 10 * Number(SubSeq(ds, 1, Len(ds) - 1)) + DigitVal(ds[Len(ds)])

FamilyOf(name) ==
    IF name = <<"E", "M", "A">> THEN "EMA"
    ELSE IF name = <<"S", "M", "A">> THEN "SMA"
    ELSE ""

\* value.parse::<MA>()
parse(value) ==
    LET opens == {i \in 1..Len(value) : value[i] = "("}
        open == IF opens = {} THEN 0
                ELSE CHOOSE i \in opens : \A j \in opens : i <= j
        name == SubSeq(value, 1, open - 1)
        digits == SubSeq(value, open + 1, Len(value) - 1)
    IN  IF /\ open > 0
           /\ value[Len(value)] = ")"
           /\ FamilyOf(name) # ""
           /\ digits # <<>>
           /\ \A i \in 1..Len(digits) : digits[i] \in Digits
           /\ Number(digits) <= PeriodTypeMAX
        THEN Ok(MA(FamilyOf(name), Number(digits)))
        ELSE Err("ParseError")

\* "EMA(5)", "SMA(2)", "EMA(256)", "XMA(3)", "EMA(", "x", ""
RawValues ==
    { <<"E", "M", "A", "(", "5", ")">>,
      <<"S", "M", "A", "(", "2", ")">>,
      <<"E", "M", "A", "(", "2", "5", "6", ")">>,
      <<"X", "M", "A", "(", "3", ")">>,
      <<"E", "M", "A", "(">>,
      <<"x">>,
      <<>> }

Names == {"ma1", "ma2", "window", "unknown"}

----------------------------------------------------------------------------
(* ChaikinOscillator: the configuration *)

Config(m1, m2, w) == [ma1 |-> m1, ma2 |-> m2, window |-> w]

\* the default with the two descriptors the other way round
Default_swapped == Config(MA("EMA", 10), MA("EMA", 3), 0)

Default == Config(MA("EMA", 3), MA("EMA", 10), 0)

\* validate that lets the two periods be equal
validate_equalPeriods(self) ==
    /\ is_similar_to(self.ma1, self.ma2)
    /\ ma_period(self.ma1) > 0
    /\ ma_period(self.ma1) <= ma_period(self.ma2)
    /\ ma_period(self.ma2) < PeriodTypeMAX

validate(self) ==
    /\ is_similar_to(self.ma1, self.ma2)
    /\ ma_period(self.ma1) > 0
    /\ ma_period(self.ma1) < ma_period(self.ma2)
    /\ ma_period(self.ma2) < PeriodTypeMAX

\* the result of init: the error ("" when Ok), the instance when Ok, and the
\* sub-components constructed on the way, in construction order
InitResult(e, v, b) == [err |-> e, v |-> v, built |-> b]

\* the construction with every error mapped to WrongConfig
construct_wrapErrors(cfg_, candle) ==
    LET a == ADI_new(cfg_.window, candle)
    IN  IF IsOk(a) /\ IsOk(MA_init(cfg_.ma1, ADI_peek(Unwrap(a))))
                   /\ IsOk(MA_init(cfg_.ma2, ADI_peek(Unwrap(a))))
        THEN InitResult("",
                 << [ma1 |-> Unwrap(MA_init(cfg_.ma1, ADI_peek(Unwrap(a)))),
                     ma2 |-> Unwrap(MA_init(cfg_.ma2, ADI_peek(Unwrap(a)))),
                     adi |-> Unwrap(a),
                     cross_over |-> Cross_default, cfg |-> cfg_] >>,
                 <<"adi", "ma1", "ma2", "cross_over">>)
        ELSE InitResult("WrongConfig", <<>>, <<>>)

\* the construction with a detector that has already seen the upper side
construct_crossSeeded(cfg_, candle) ==
    LET a == ADI_new(cfg_.window, candle)
    IN  IF IsOk(a) /\ IsOk(MA_init(cfg_.ma1, ADI_peek(Unwrap(a))))
                   /\ IsOk(MA_init(cfg_.ma2, ADI_peek(Unwrap(a))))
        THEN InitResult("",
                 << [ma1 |-> Unwrap(MA_init(cfg_.ma1, ADI_peek(Unwrap(a)))),
                     ma2 |-> Unwrap(MA_init(cfg_.ma2, ADI_peek(Unwrap(a)))),
                     adi |-> Unwrap(a),
                     cross_over |-> [last |-> 1], cfg |-> cfg_] >>,
                 <<"adi", "ma1", "ma2", "cross_over">>)
        ELSE InitResult(IF IsOk(a) THEN "WrongMethodParameters" ELSE a.err,
                        <<>>, <<>>)

\* the construction that steps the accumulator to get the seed of the filters
construct_seedFromNext(cfg_, candle) ==
    LET a == ADI_new(cfg_.window, candle)
        adi == ADI_next(Unwrap(a), candle)
        m1 == MA_init(cfg_.ma1, ADI_peek(adi))
        m2 == MA_init(cfg_.ma2, ADI_peek(adi))
    IN  IF ~IsOk(a) THEN InitResult(a.err, <<>>, <<>>)
        ELSE IF ~IsOk(m1) THEN InitResult(m1.err, <<>>, <<"adi">>)
        ELSE IF ~IsOk(m2) THEN InitResult(m2.err, <<>>, <<"adi", "ma1">>)
        ELSE InitResult("",
                 << [ma1 |-> Unwrap(m1), ma2 |-> Unwrap(m2), adi |-> adi,
                     cross_over |-> Cross_default, cfg |-> cfg_] >>,
                 <<"adi", "ma1", "ma2", "cross_over">>)

\* init after validation: the accumulator, then the two filters seeded with
\* its current value, then the detector; the first error is returned as it is
construct(cfg_, candle) ==
    LET a == ADI_new(cfg_.window, candle)
        adi == Unwrap(a)
        m1 == MA_init(cfg_.ma1, ADI_peek(adi))
        m2 == MA_init(cfg_.ma2, ADI_peek(adi))
    IN  IF ~IsOk(a) THEN InitResult(a.err, <<>>, <<>>)
        ELSE IF ~IsOk(m1) THEN InitResult(m1.err, <<>>, <<"adi">>)
        ELSE IF ~IsOk(m2) THEN InitResult(m2.err, <<>>, <<"adi", "ma1">>)
        ELSE InitResult("",
                 << [ma1 |-> Unwrap(m1), ma2 |-> Unwrap(m2), adi |-> adi,
                     cross_over |-> Cross_default, cfg |-> cfg_] >>,
                 <<"adi", "ma1", "ma2", "cross_over">>)

\* init without the validation
init_unvalidated(self, candle) == construct(self, candle)

init(self, candle) ==
    IF ~validate(self)
    THEN InitResult("WrongConfig", <<>>, <<>>)
    ELSE construct(self, candle)

\* the result of set: the error ("" when Ok) with the name and the value it
\* carries, and the configuration after the call
SetResult(e, n, v, c) == [err |-> e, name |-> n, value |-> v, cfg |-> c]

\* set that takes an unrecognized name for a no-op
set_ignoreUnknown(self, name, value) ==
    LET parsed == parse(value)
    IN  IF name = "ma1"
        THEN IF ~IsOk(parsed)
             THEN SetResult("ParameterParse", name, value, self)
             ELSE SetResult("", "", <<>>, [self EXCEPT !.ma1 = Unwrap(parsed)])
        ELSE IF name = "ma2"
        THEN IF ~IsOk(parsed)
             THEN SetResult("ParameterParse", name, value, self)
             ELSE SetResult("", "", <<>>, [self EXCEPT !.ma2 = Unwrap(parsed)])
        ELSE SetResult("", "", <<>>, self)

\* set that refuses a value the other descriptor does not go with
set_crossChecked(self, name, value) ==
    LET parsed == parse(value)
        after == IF name = "ma1" THEN [self EXCEPT !.ma1 = Unwrap(parsed)]
                 ELSE [self EXCEPT !.ma2 = Unwrap(parsed)]
    IN  IF name \in {"ma1", "ma2"} /\ IsOk(parsed) /\ validate(after)
        THEN SetResult("", "", <<>>, after)
        ELSE SetResult("ParameterParse", name, value, self)

\* set whose "ma2" arm assigns ma1
set_ma2WritesMa1(self, name, value) ==
    LET parsed == parse(value)
    IN  IF name \in {"ma1", "ma2"}
        THEN IF ~IsOk(parsed)
             THEN SetResult("ParameterParse", name, value, self)
             ELSE SetResult("", "", <<>>, [self EXCEPT !.ma1 = Unwrap(parsed)])
        ELSE SetResult("ParameterParse", name, value, self)

set(self, name, value) ==
    LET parsed == parse(value)
    IN  IF name = "ma1"
        THEN IF ~IsOk(parsed)
             THEN SetResult("ParameterParse", name, value, self)
             ELSE SetResult("", "", <<>>, [self EXCEPT !.ma1 = Unwrap(parsed)])
        ELSE IF name = "ma2"
        THEN IF ~IsOk(parsed)
             THEN SetResult("ParameterParse", name, value, self)
             ELSE SetResult("", "", <<>>, [self EXCEPT !.ma2 = Unwrap(parsed)])
        ELSE SetResult("ParameterParse", name, value, self)

\* size of an indicator with two values
size_twoValues(self) == <<2, 1>>

size(self) == <<1, 1>>

----------------------------------------------------------------------------
(* ChaikinOscillatorInstance *)

config(self) == self.cfg

NextResult(self, adi, ma1, ma2, cross, values, signals) ==
    [self |-> [self EXCEPT !.adi = adi, !.ma1 = ma1, !.ma2 = ma2,
                           !.cross_over = cross],
     values |-> values,
     signals |-> signals]

\* next that hands the detector the pair the other way round
next_swappedPair(self, candle) ==
    LET adi == ADI_next(self.adi, candle)
        ma1 == MA_next(self.ma1, ADI_peek(adi))
        ma2 == MA_next(self.ma2, ADI_peek(adi))
        value == RSub(ma1.value, ma2.value)
        cross == Cross_next(self.cross_over, Zero, value)
    IN  NextResult(self, adi, ma1, ma2, cross.cross, <<value>>, <<cross.signal>>)

\* next that steps a copy of the detector and keeps the old one
next_staleCross(self, candle) ==
    LET adi == ADI_next(self.adi, candle)
        ma1 == MA_next(self.ma1, ADI_peek(adi))
        ma2 == MA_next(self.ma2, ADI_peek(adi))
        value == RSub(ma1.value, ma2.value)
        cross == Cross_next(self.cross_over, value, Zero)
    IN  NextResult(self, adi, ma1, ma2, self.cross_over, <<value>>, <<cross.signal>>)

\* next that returns the whole part of the value for the signal
next_valueAsSignal(self, candle) ==
    LET adi == ADI_next(self.adi, candle)
        ma1 == MA_next(self.ma1, ADI_peek(adi))
        ma2 == MA_next(self.ma2, ADI_peek(adi))
        value == RSub(ma1.value, ma2.value)
        cross == Cross_next(self.cross_over, value, Zero)
    IN  NextResult(self, adi, ma1, ma2, cross.cross, <<value>>,
                   <<Sign(value) * (Abs(value[1]) \div value[2])>>)

\* next that feeds the filters before it steps the accumulator
next_filtersBeforeAdi(self, candle) ==
    LET ma1 == MA_next(self.ma1, ADI_peek(self.adi))
        ma2 == MA_next(self.ma2, ADI_peek(self.adi))
        adi == ADI_next(self.adi, candle)
        value == RSub(ma1.value, ma2.value)
        cross == Cross_next(self.cross_over, value, Zero)
    IN  NextResult(self, adi, ma1, ma2, cross.cross, <<value>>, <<cross.signal>>)

\* the instance after the candle and the IndicatorResult returned
next(self, candle) ==
    LET adi == ADI_next(self.adi, candle)
        a == ADI_peek(adi)
        ma1 == MA_next(self.ma1, a)
        ma2 == MA_next(self.ma2, a)
        data1 == ma1.value
        data2 == ma2.value
        value == RSub(data1, data2)
        cross == Cross_next(self.cross_over, value, Zero)
        signal == cross.signal
    IN  NextResult(self, adi, ma1, ma2, cross.cross, <<value>>, <<signal>>)

----------------------------------------------------------------------------
(* The state machine: a caller holding one configuration value and the     *)
(* instance its last successful init returned.                             *)
(*   cfg   the caller's ChaikinOscillator value                            *)
(*   inst  <<>> or <<the ChaikinOscillatorInstance>>                       *)
(*   res   the last call and what it returned                              *)
(*   outs  the IndicatorResults returned by next on inst, oldest first     *)

Periods == (0..MaxPeriod) \cup {ma_period(Default.ma2), PeriodTypeMAX}

Windows == {0, 1, 2, PeriodTypeMAX}

Descriptors == {MA(f, p) : f \in Families, p \in Periods}

Configs == {Config(m1, m2, w) : m1 \in Descriptors, m2 \in Descriptors, w \in Windows}

\* a call: the operation, its arguments, what it returned (with the name and
\* the value a ParameterParse error carries), the sub-components init
\* constructed, the shape size returned
Call(op, args, ret, carried, built, shape) ==
    [op |-> op, args |-> args, ret |-> ret, carried |-> carried,
     built |-> built, shape |-> shape]

NoCall == Call("", <<>>, "", <<>>, <<>>, <<>>)

\* the configuration is a plain value with public fields: any combination of
\* descriptors and window can be written down
Init ==
    /\ cfg \in Configs
    /\ inst = <<>>
    /\ res = NoCall
    /\ outs = <<>>

ValidateOp ==
    /\ res' = Call("validate", <<>>, IF validate(cfg) THEN "true" ELSE "false",
                   <<>>, <<>>, <<>>)
    /\ UNCHANGED <<cfg, inst, outs>>

SizeOp ==
    /\ res' = Call("size", <<>>, "", <<>>, <<>>, size(cfg))
    /\ UNCHANGED <<cfg, inst, outs>>

\* set on a configuration the instance shares with the caller
SetOp_writeThrough(name, value) ==
    LET r == set(cfg, name, value)
    IN  /\ cfg' = r.cfg
        /\ res' = Call("set", <<name, value>>,
                       IF r.err = "" THEN "Ok" ELSE r.err,
                       IF r.err = "" THEN <<>> ELSE <<r.name, r.value>>,
                       <<>>, <<>>)
        /\ inst' = IF inst = <<>> THEN inst
                   ELSE <<[inst[1] EXCEPT !.cfg = r.cfg]>>
        /\ UNCHANGED outs

SetOp(name, value) ==
    LET r == set(cfg, name, value)
    IN  /\ cfg' = r.cfg
        /\ res' = Call("set", <<name, value>>,
                       IF r.err = "" THEN "Ok" ELSE r.err,
                       IF r.err = "" THEN <<>> ELSE <<r.name, r.value>>,
                       <<>>, <<>>)
        /\ UNCHANGED <<inst, outs>>

\* init takes the configuration by value: the caller keeps its copy
InitOp(candle) ==
    LET r == init(cfg, candle)
    IN  /\ res' = Call("init", <<candle>>, IF r.err = "" THEN "Ok" ELSE r.err,
                       <<>>, r.built, <<>>)
        /\ inst' = IF r.err = "" THEN r.v ELSE inst
        /\ outs' = IF r.err = "" THEN <<>> ELSE outs
        /\ UNCHANGED cfg

NextOp(candle) ==
    /\ inst # <<>>
    /\ Len(outs) < MaxTicks
    /\ LET r == next(inst[1], candle)
       IN  /\ inst' = <<r.self>>
           /\ outs' = Append(outs, [values |-> r.values, signals |-> r.signals])
           /\ res' = Call("next", <<candle>>, "", <<>>, <<>>, <<>>)
    /\ UNCHANGED cfg

\* the configuration's life up to its materialization
Next ==
    \/ \E name \in Names, value \in RawValues : inst = <<>> /\ SetOp(name, value)
    \/ ValidateOp
    \/ SizeOp
    \/ \E candle \in Candles : InitOp(candle)

Spec == Init /\ [][Next]_vars

\* the instance's life: one materialization, then one next per candle
NextRun ==
    \/ \E candle \in Candles : inst = <<>> /\ InitOp(candle)
    \/ \E candle \in Candles : NextOp(candle)

SpecRun == Init /\ [][NextRun]_vars

\* the caller keeps using its configuration value while the instance runs:
\* set, validate, size and a new init at any time, between the next calls
LiveConfigs == {Default, Config(MA("SMA", 1), MA("SMA", 3), 2)}

LiveCandles == {Candle(2, 0, 2, 1), Candle(2, 0, 0, MaxVolume)}

\* "EMA(5)", "SMA(2)", "x"
LiveValues ==
    { <<"E", "M", "A", "(", "5", ")">>,
      <<"S", "M", "A", "(", "2", ")">>,
      <<"x">> }

LiveNames == {"ma1", "ma2", "window"}

InitLive ==
    /\ cfg \in LiveConfigs
    /\ inst = <<>>
    /\ res = NoCall
    /\ outs = <<>>

NextLive ==
    \/ \E name \in LiveNames, value \in LiveValues : SetOp(name, value)
    \/ ValidateOp
    \/ SizeOp
    \/ \E candle \in LiveCandles : InitOp(candle)
    \/ \E candle \in LiveCandles : Len(outs) < MaxLiveTicks /\ NextOp(candle)

SpecLive == InitLive /\ [][NextLive]_vars

----------------------------------------------------------------------------
(* Properties *)

\* the i-th IndicatorResult of the instance: its value and its signal
V(i) == outs[i].values[1]
G(i) == outs[i].signals[1]
Ticks == 1..Len(outs)

\* the invariants of the configuration as the documentation of the fields
\* states them
Usable(c) ==
    /\ c.ma1.family = c.ma2.family
    /\ 1 <= c.ma1.period
    /\ c.ma1.period < c.ma2.period
    /\ c.ma2.period < PeriodTypeMAX

\* C1: validate() returns true exactly when ma1 and ma2 are of the same
\* family, 1 <= period(ma1) < period(ma2) and period(ma2) < PeriodType::MAX;
\* the window has no influence on the result and the call leaves the
\* configuration as it was.
C1_ValidateIffInvariants ==
    [][res'.op = "validate" =>
          /\ (res'.ret = "true") <=> Usable(cfg)
          /\ res'.ret \in {"true", "false"}
          /\ \A w \in Windows :
                 validate([cfg EXCEPT !.window = w]) = (res'.ret = "true")
          /\ cfg' = cfg]_vars

C1_Witness ==
    /\ res.op = "validate"
    /\ res.ret = "true"
    /\ cfg.window = PeriodTypeMAX

\* C2: init on a configuration for which validate() is false returns
\* Error::WrongConfig for every seed candle, returns no instance and
\* constructs no sub-component, not even the accumulator.
C2_InvalidConfigRejected ==
    [][(res'.op = "init" /\ ~validate(cfg)) =>
          /\ res'.ret = "WrongConfig"
          /\ res'.built = <<>>
          /\ inst' = inst
          /\ cfg' = cfg]_vars

C2_Witness ==
    /\ res.op = "init"
    /\ res.ret = "WrongConfig"
    /\ cfg = Config(MA("EMA", 10), MA("EMA", 3), 0)
    /\ inst = <<>>

\* C3: set with a name other than "ma1" and "ma2", or with a value that does
\* not parse into a descriptor, returns ParameterParse carrying the given name
\* and the given value, and leaves the configuration as it was.
C3_SetFailureLeavesConfig ==
    [][(/\ res'.op = "set"
        /\ \/ res'.args[1] \notin {"ma1", "ma2"}
           \/ ~IsOk(parse(res'.args[2])))
       => /\ res'.ret = "ParameterParse"
          /\ res'.carried = res'.args
          /\ cfg' = cfg]_vars

C3_Witness ==
    /\ res.op = "set"
    /\ res.args = <<"unknown", <<"x">>>>
    /\ res.ret = "ParameterParse"
    /\ res.carried = <<"unknown", <<"x">>>>
    /\ cfg = Default

\* set with "ma1" or "ma2" and a parseable value succeeds and stores the
\* value, whatever the other fields are
SetStoresUnchecked ==
    (/\ res'.op = "set"
     /\ res'.args[1] \in {"ma1", "ma2"}
     /\ IsOk(parse(res'.args[2])))
    => /\ res'.ret = "Ok"
       /\ cfg' = IF res'.args[1] = "ma1"
                 THEN [cfg EXCEPT !.ma1 = Unwrap(parse(res'.args[2]))]
                 ELSE [cfg EXCEPT !.ma2 = Unwrap(parse(res'.args[2]))]

\* a successful init returns an instance that holds the configuration as it
\* stands at the call
InitReflectsConfig ==
    (res'.op = "init" /\ res'.ret = "Ok") =>
        /\ inst' # <<>>
        /\ config(inst'[1]) = cfg
        /\ inst'[1].ma1.period = cfg.ma1.period
        /\ inst'[1].ma2.period = cfg.ma2.period

\* every collaborator of init can be constructed from the configuration
Constructible(c, candle) ==
    /\ IsOk(ADI_new(c.window, candle))
    /\ IsOk(MA_init(c.ma1, clvv(candle)))
    /\ IsOk(MA_init(c.ma2, clvv(candle)))

Before(i) == IF i = 1 THEN Zero ELSE V(i - 1)

\* C5: on every next whose value is above zero while the value of the call
\* just before was at or below zero the signal is +1, and on every next whose
\* value is below zero while the value of the call just before was at or above
\* zero the signal is -1.
C5_ZeroLineConsistency ==
    \A i \in Ticks :
        i > 1 =>
            /\ (RGt(V(i), Zero) /\ RLe(V(i - 1), Zero)) => G(i) = 1
            /\ (RLt(V(i), Zero) /\ RGe(V(i - 1), Zero)) => G(i) = -1

\* a rise from exactly zero and a fall from above zero
C5_Witness ==
    \E i, j \in Ticks :
        /\ i > 1 /\ j > 1
        /\ V(i - 1) = Zero /\ RGt(V(i), Zero) /\ G(i) = 1
        /\ RGt(V(j - 1), Zero) /\ RLt(V(j), Zero) /\ G(j) = -1

\* the first call whose value is above zero, and the first call after it
\* whose value is below zero (0 when there is none so far)
FirstAbove ==
    IF \E i \in Ticks : RGt(V(i), Zero)
    THEN CHOOSE i \in Ticks :
             RGt(V(i), Zero) /\ \A j \in 1..(i - 1) : ~RGt(V(j), Zero)
    ELSE 0

FirstBelowAfter ==
    IF FirstAbove > 0 /\ \E i \in Ticks : i > FirstAbove /\ RLt(V(i), Zero)
    THEN CHOOSE i \in Ticks :
             /\ i > FirstAbove /\ RLt(V(i), Zero)
             /\ \A j \in (FirstAbove + 1)..(i - 1) : ~RLt(V(j), Zero)
    ELSE 0

\* the calls other than these two, up to the second of them
OtherTicks ==
    {i \in Ticks : /\ FirstAbove > 0
                   /\ i # FirstAbove
                   /\ i # FirstBelowAfter
                   /\ (FirstBelowAfter = 0 \/ i < FirstBelowAfter)}

\* C6 as stated: from a fresh instance, the first next whose value is above
\* zero signals +1, the first later next whose value is below zero signals
\* -1, and every other call up to that point signals 0.
C6_OnlyTwoSignals ==
    /\ FirstAbove > 0 => G(FirstAbove) = 1
    /\ FirstBelowAfter > 0 => G(FirstBelowAfter) = -1
    /\ \A i \in OtherTicks : G(i) = 0

\* C6, amended: from a fresh instance, the first next whose value is above
\* zero signals +1, the first later next whose value is below zero signals
\* -1, and every other call up to that point signals 0 unless its value is
\* not zero while the value before it was exactly zero (the fresh detector
\* counts as zero): such a call signals the sign of its value.
C6_FirstCrossings ==
    /\ FirstAbove > 0 => G(FirstAbove) = 1
    /\ FirstBelowAfter > 0 => G(FirstBelowAfter) = -1
    /\ \A i \in OtherTicks :
           G(i) = IF Before(i) = Zero THEN Sign(V(i)) ELSE 0

\* the first call is the first above zero, a later one the first below, and
\* there are calls in between
C6_Witness ==
    /\ FirstAbove = 1
    /\ FirstBelowAfter > 2
    /\ G(1) = 1
    /\ G(FirstBelowAfter) = -1

\* C7: a next whose value is on the same side of zero as the value of the
\* call just before signals 0.
C7_NoSpuriousSignal ==
    \A i \in Ticks :
        i > 1 =>
            /\ (RGt(V(i - 1), Zero) /\ RGt(V(i), Zero)) => G(i) = 0
            /\ (RLt(V(i - 1), Zero) /\ RLt(V(i), Zero)) => G(i) = 0

\* the value stays above zero for two calls after it crossed
C7_Witness ==
    /\ Len(outs) = 3
    /\ \A i \in Ticks : RGt(V(i), Zero)
    /\ G(1) = 1 /\ G(2) = 0 /\ G(3) = 0

\* C8: the signal of every next is one of -1, 0, +1.
C8_SignalBound ==
    \A i \in Ticks :
        /\ Len(outs[i].signals) = 1
        /\ G(i) \in {-1, 0, 1}

\* all three signals in one run
C8_Witness ==
    \E i, j, k \in Ticks : G(i) = 1 /\ G(j) = -1 /\ G(k) = 0

\* C9: the value of every next lies in [-1, 1].
C9_ValueInUnitRange ==
    \A i \in Ticks : RLe(RNeg(One), V(i)) /\ RLe(V(i), One)

C12_DefaultIsUsable ==
    /\ Default.ma1 = MA("EMA", 3)
    /\ Default.ma2 = MA("EMA", 10)
    /\ Default.window = 0
    /\ is_similar_to(Default.ma1, Default.ma2)
    /\ (cfg = Default /\ res.op = "validate") => res.ret = "true"
    /\ (cfg = Default /\ res.op = "init") => res.ret # "WrongConfig"

C12_Witness ==
    /\ cfg = Default
    /\ res.op = "init"
    /\ res.ret = "Ok"
    /\ inst # <<>>
    /\ config(inst[1]) = Default

\* C13: size returns (1, 1) for every configuration, usable or not, before
\* and after any set, and every next returns exactly one value and exactly
\* one signal.
C13_OutputShape ==
    /\ res.op = "size" => res.shape = <<1, 1>>
    /\ \A i \in Ticks :
           Len(outs[i].values) = size(cfg)[1] /\ Len(outs[i].signals) = size(cfg)[2]
    /\ \A i \in Ticks : Len(outs[i].values) = 1 /\ Len(outs[i].signals) = 1

\* size asked of a configuration that set has made unusable, while the
\* instance made from it earlier has been stepped
C13_Witness ==
    /\ res.op = "size"
    /\ res.shape = <<1, 1>>
    /\ ~validate(cfg)
    /\ Len(outs) > 0

\* C14: a next steps the accumulator once, then each filter once with the
\* accumulation value of this call, returns the short filter's value minus
\* the long filter's value, and steps the detector once with the pair
\* (value, 0); the detector's result is the signal returned.
C14_NextStepsInOrder ==
    [][res'.op = "next" =>
          LET candle == res'.args[1]
              old == inst[1]
              new == inst'[1]
              a == ADI_peek(new.adi)
              out == outs'[Len(outs')]
              cross == Cross_next(old.cross_over, out.values[1], Zero)
          IN  /\ new.adi = ADI_next(old.adi, candle)
              /\ new.ma1 = MA_next(old.ma1, a)
              /\ new.ma2 = MA_next(old.ma2, a)
              /\ out.values = <<RSub(new.ma1.value, new.ma2.value)>>
              /\ new.cross_over = cross.cross
              /\ out.signals = <<cross.signal>>
              /\ Len(outs') = Len(outs) + 1]_vars

\* a call that moved the accumulator, both filters and the detector
C14_Witness ==
    /\ res.op = "next"
    /\ Len(outs) >= 2
    /\ V(Len(outs)) # Zero
    /\ G(Len(outs)) # 0
    /\ inst[1].ma1.value # inst[1].adi.cmf_sum
    /\ inst[1].ma2.value # inst[1].adi.cmf_sum

\* C15: a successful init seeds both filters with the accumulator's value
\* right after its construction from the seed candle; the accumulator of the
\* instance is the accumulator as constructed, not stepped, and the detector
\* is in its default state.
C15_PeekBeforeSeed ==
    (res.op = "init" /\ res.ret = "Ok") =>
        LET a == Unwrap(ADI_new(cfg.window, res.args[1]))
        IN  /\ inst[1].adi = a
            /\ inst[1].ma1 = Unwrap(MA_init(cfg.ma1, ADI_peek(a)))
            /\ inst[1].ma2 = Unwrap(MA_init(cfg.ma2, ADI_peek(a)))
            /\ inst[1].ma1.value = ADI_peek(inst[1].adi)
            /\ inst[1].ma2.value = inst[1].ma1.value
            /\ inst[1].cross_over = Cross_default

\* a windowed accumulator seeded from a candle of nonzero value
C15_Witness ==
    /\ res.op = "init"
    /\ res.ret = "Ok"
    /\ cfg.window = 2
    /\ inst[1].adi.cmf_sum # Zero
    /\ inst[1].ma1.value = inst[1].adi.cmf_sum

\* C16: the configuration an instance holds is the one validated at its init:
\* validate() holds on it in every state, next does not change it, and set on
\* the caller's configuration leaves the instance as it is.
C16_InstanceConfigReadOnly ==
    [][/\ inst' # <<>> => validate(config(inst'[1]))
       /\ (res'.op = "init" /\ res'.ret = "Ok") => config(inst'[1]) = cfg
       /\ (inst # <<>> /\ ~(res'.op = "init" /\ res'.ret = "Ok"))
          => (inst' # <<>> /\ config(inst'[1]) = config(inst[1]))
       /\ res'.op \in {"set", "validate", "size"} => inst' = inst]_vars

\* the instance stepped after set has made the caller's configuration unusable
C16_Witness ==
    /\ res.op = "next"
    /\ inst # <<>>
    /\ ~validate(cfg)
    /\ validate(config(inst[1]))
    /\ cfg # config(inst[1])

\* C17: a successful set("ma1", x) replaces ma1 and leaves ma2 and window, a
\* successful set("ma2", x) replaces ma2 and leaves ma1 and window; set with
\* the name "window" is rejected with ParameterParse; no call changes window.
C17_SetChangesNamedFieldOnly ==
    [][/\ cfg'.window = cfg.window
       /\ (res'.op = "set" /\ res'.ret = "Ok" /\ res'.args[1] = "ma1")
          => (cfg'.ma1 = Unwrap(parse(res'.args[2])) /\ cfg'.ma2 = cfg.ma2)
       /\ (res'.op = "set" /\ res'.ret = "Ok" /\ res'.args[1] = "ma2")
          => (cfg'.ma2 = Unwrap(parse(res'.args[2])) /\ cfg'.ma1 = cfg.ma1)
       /\ (res'.op = "set" /\ res'.ret = "Ok") => res'.args[1] \in {"ma1", "ma2"}
       /\ (res'.op = "set" /\ res'.args[1] = "window")
          => (res'.ret = "ParameterParse" /\ cfg' = cfg)]_vars

\* ma2 replaced, ma1 and a nonzero window kept
C17_Witness ==
    /\ res.op = "set"
    /\ res.args = <<"ma2", <<"E", "M", "A", "(", "5", ")">>>>
    /\ res.ret = "Ok"
    /\ cfg = Config(MA("SMA", 3), MA("EMA", 5), 2)

====
